---- MODULE Spec2Model ----
(* A model of pkg/pcstats/pcstatus.go: one call of GetPcStatus(fname, filter) *)
(* against a small file system, with the operating system's answers and the   *)
(* filter's verdict chosen nondeterministically.                              *)
EXTENDS Integers, Sequences, FiniteSets

(* ------------------------------ bounds ---------------------------------- *)
\* Largest file, in pages, that the file system of the model holds.
MaxPages == 2
\* How often a concurrent process may re-bind the path during the call.
MaxRebinds == 1

(* --------------------------- program constants -------------------------- *)
\* The platform page size of the residency provider (4096 in the scenarios).
PageSize == 4096

\* os.ModeDir, os.ModeDevice and os.ModeCharDevice mode bits.
ModeDir == "ModeDir"
ModeDevice == "ModeDevice"
ModeCharDevice == "ModeCharDevice"

\* The paths a caller may hand in.
Paths == {"/data/file", "/dev/sdb"}

\* The file objects of the file system; NoFile: the path names nothing.
FileIds == {"inodeA", "inodeB"}
NoFile == "none"

\* Byte lengths: the empty file, one byte, and around each page boundary.
Sizes ==
    {0} \cup {p * PageSize : p \in 1..MaxPages}
        \cup {(p - 1) * PageSize + 1 : p \in 1..MaxPages}

\* What stat and the device-size query report of one file object: its mode
\* bits, its generic stat size, its device capacity and its mtime.
FileAttrs ==
    {[mode |-> {}, size |-> s, dev |-> 0, mtime |-> 1] : s \in Sizes}
    \cup {[mode |-> {ModeDir}, size |-> PageSize, dev |-> 0, mtime |-> 1]}
    \cup {[mode |-> {ModeDevice, ModeCharDevice}, size |-> 0, dev |-> 0, mtime |-> 1]}
    \cup {[mode |-> {ModeDevice}, size |-> s, dev |-> d, mtime |-> 1] :
            s \in Sizes, d \in Sizes}

(* ------------------------------- errors --------------------------------- *)
Err(kind, cause) == [kind |-> kind, cause |-> cause]
Nil == Err("nil", "")
\* fmt.Errorf("<prefix>: %v", err)
Errorf(prefix, e) == Err(prefix, e.cause)
\* errors.New("file is a directory")
DirectoryError == Err("file is a directory", "")
\* What the caller's filter may answer.
FilterResults == {Nil, Err("filter", "rejected"), Err("filter", "too large")}

(* ------------------------------- records -------------------------------- *)
\* float64 values as exact ratios, with the two IEEE results of a division
\* by zero.
Ratio(n, d) == [tag |-> "num", num |-> n, den |-> d]
NaN == [tag |-> "NaN", num |-> 0, den |-> 0]
Inf == [tag |-> "Inf", num |-> 0, den |-> 0]
FloatZero == Ratio(0, 1)
\* float64(a) / float64(b)
FloatDiv(a, b) ==
    IF b = 0 THEN (IF a = 0 THEN NaN ELSE Inf) ELSE Ratio(a, b)
\* x * 100.00
FloatMul100(x) ==
    IF x.tag = "num" THEN Ratio(100 * x.num, x.den) ELSE x

\* PcStatus{Name: fname}
NewPcStatus(name) ==
    [Name |-> name, Size |-> 0, Timestamp |-> 0, Mtime |-> 0,
     Pages |-> 0, Cached |-> 0, Uncached |-> 0, Percent |-> FloatZero]

NoInfo == [mode |-> {}, size |-> 0, mtime |-> 0]
NoMincore == [present |-> FALSE, Cached |-> 0, Miss |-> 0]
NoCalls ==
    [open |-> 0, filter |-> 0, stat |-> 0, isBlock |-> 0, devSize |-> 0,
     mincore |-> 0]

VARIABLES
    fs,        \* file object -> attributes
    bind,      \* the file object the path names now (NoFile: none)
    fname,     \* the path argument
    pc,        \* the next stage of the call
    pcs,       \* the status record under construction / returned
    err,       \* the returned error
    f,         \* index in handles of the handle opened at line 74 (0: none)
    finfo,     \* the result of f.Stat()
    isBlock,   \* the result of _isBlockDevice(fname)
    mincore,   \* the result of GetFileMincore
    handles,   \* every handle opened during the call
    now,       \* the clock
    trace,     \* the stages that ran, in order
    failed,    \* the stage that failed ("none": no stage failed)
    calls,     \* how often each collaborator was invoked
    filterRes, \* what the filter answered
    probeLen,  \* the byte length handed to the residency provider
    sizedFile, \* the file object the device-size query was issued against
    rebinds    \* how often the path was re-bound

vars ==
    <<fs, bind, fname, pc, pcs, err, f, finfo, isBlock, mincore, handles, now,
      trace, failed, calls, filterRes, probeLen, sizedFile, rebinds>>

Init ==
    /\ fs \in [FileIds -> FileAttrs]
    /\ bind \in FileIds \cup {NoFile}
    /\ fname \in Paths
    /\ pc = "Open"
    /\ pcs = NewPcStatus("")
    /\ err = Nil
    /\ f = 0
    /\ finfo = NoInfo
    /\ isBlock = FALSE
    /\ mincore = NoMincore
    /\ handles = <<>>
    /\ now = 1
    /\ trace = <<>>
    /\ failed = "none"
    /\ calls = NoCalls
    /\ filterRes = Nil
    /\ probeLen = -1
    /\ sizedFile = NoFile
    /\ rebinds = 0

(* ------------------------- operating system ----------------------------- *)
\* os.Open(path): the errno it may end with ("ok": a handle).
OpenOutcomes == IF bind = NoFile THEN {"ENOENT"} ELSE {"ok", "EACCES"}
\* os.Stat(path)
PathStatOutcomes == IF bind = NoFile THEN {"ENOENT"} ELSE {"ok", "EACCES"}
\* f.Stat() on an open handle
HandleStatOutcomes == {"ok", "EIO"}
\* ioctl(fd, BLKGETSIZE64): only a block device answers it.
IoctlOutcomes(file) ==
    IF ModeDevice \in fs[file].mode /\ ModeCharDevice \notin fs[file].mode
    THEN {"ok", "EINVAL"}
    ELSE {"ENOTTY"}

\* A freshly opened handle on a file object.
NewHandle(file, by) == [file |-> file, open |-> TRUE, closes |-> 0, by |-> by]
\* file.Close()
CloseHandle(hs, h) ==
    [hs EXCEPT ![h] = [@ EXCEPT !.open = FALSE, !.closes = @ + 1]]

\* One more stage ran.
Ran(stage) == trace' = Append(trace, stage)
Called(what) == calls' = [calls EXCEPT ![what] = @ + 1]

\* A slip in line 52: the character-device test inverted.
BlockDeviceModeInverted(mode) == ModeDevice \in mode /\ ModeCharDevice \in mode

\* mode&os.ModeDevice != 0 && mode&os.ModeCharDevice == 0
BlockDeviceMode(mode) == ModeDevice \in mode /\ ModeCharDevice \notin mode

\* _isBlockDevice(path) with os.Stat ending in `outcome`: <<bool, error>>.
IsBlockDeviceResult(outcome) ==
    IF outcome # "ok"
    THEN <<FALSE, Err("stat", outcome)>>
    ELSE <<BlockDeviceMode(fs[bind].mode), Nil>>

\* The handles after getBlockDeviceSize's deferred file.Close().
DeferCloseDevice(hs, h) == CloseHandle(hs, h)

\* getBlockDeviceSize(path) with os.Open ending in `openOut` and the ioctl in
\* `ioctlOut`: the size, the error, the handles afterwards and the file object
\* the query was issued against.
getBlockDeviceSize(openOut, ioctlOut) ==
    IF openOut # "ok"
    THEN [size |-> 0, err |-> Err("open", openOut), handles |-> handles,
          file |-> NoFile]
    ELSE LET opened == Append(handles, NewHandle(bind, "getBlockDeviceSize"))
             h == Len(opened)
         IN  [size |-> IF ioctlOut = "ok" THEN fs[bind].dev ELSE 0,
              err |-> IF ioctlOut = "ok" THEN Nil ELSE Err("errno", ioctlOut),
              handles |-> DeferCloseDevice(opened, h),
              file |-> bind]

(* ------------------------ residency provider ---------------------------- *)
\* The number of fixed-size pages needed to cover n bytes.
PagesFor(n) == (n + PageSize - 1) \div PageSize

\* GetFileMincore(f, size): a failure, no residency data for an empty range,
\* or counts that add up to the pages covering `size`.
MincoreOutcomes(size) ==
    {[err |-> Err("mincore", "ENOMEM"), res |-> NoMincore]}
    \cup (IF size = 0 THEN {[err |-> Nil, res |-> NoMincore]} ELSE {})
    \cup {[err |-> Nil,
           res |-> [present |-> TRUE, Cached |-> c, Miss |-> PagesFor(size) - c]] :
            c \in 0..PagesFor(size)}

(* ------------------------------ GetPcStatus ----------------------------- *)
\* A slip in a return statement: the error is dropped on the way out.
ReturnWithNil(e) == err' = Nil /\ pc' = "Return"

\* A return statement: the error is fixed, the deferred calls are still to run.
ReturnWith(e) == err' = e /\ pc' = "Return"

\* A slip in line 76: the cause returned without the wrapping.
OpenErrorUnwrapped(e) == e
\* Line 76: fmt.Errorf("could not open file for read: %v", err)
OpenError(e) == Errorf("could not open file for read", e)

\* Lines 72-78: pcs := PcStatus{Name: fname}; f, err := os.Open(fname).
Open ==
    /\ pc = "Open"
    /\ Ran("Open")
    /\ Called("open")
    /\ pcs' = NewPcStatus(fname)
    /\ now' = now + 1
    /\ \E o \in OpenOutcomes :
          IF o # "ok"
          THEN /\ ReturnWith(OpenError(Err("open", o)))
               /\ failed' = "Open"
               /\ UNCHANGED <<handles, f>>
          ELSE /\ handles' = Append(handles, NewHandle(bind, "GetPcStatus"))
               /\ f' = Len(handles) + 1
               /\ pc' = "Filter"
               /\ UNCHANGED <<err, failed>>
    /\ UNCHANGED <<fs, bind, fname, finfo, isBlock, mincore, filterRes,
                   probeLen, sizedFile, rebinds>>

\* A slip in line 80: the filter's verdict ignored.
FilterIgnored(r) == FALSE
\* Line 80: err != nil
FilterRejects(r) == r # Nil

\* Lines 80-82: if err := filter(f); err != nil { return pcs, err }.
Filter ==
    /\ pc = "Filter"
    /\ Ran("Filter")
    /\ Called("filter")
    /\ now' = now + 1
    /\ \E r \in FilterResults :
          /\ filterRes' = r
          /\ IF FilterRejects(r)
             THEN ReturnWith(r) /\ failed' = "Filter"
             ELSE pc' = "Stat" /\ UNCHANGED <<err, failed>>
    /\ UNCHANGED <<fs, bind, fname, pcs, f, finfo, isBlock, mincore, handles,
                   probeLen, sizedFile, rebinds>>

\* A slip in line 93: the directory check left out.
IsDirNever(info) == FALSE
\* Line 93: finfo.IsDir()
IsDir(info) == ModeDir \in info.mode

\* Lines 89-95: finfo, err := f.Stat(); the directory check.
Stat ==
    /\ pc = "Stat"
    /\ Ran("Stat")
    /\ Called("stat")
    /\ now' = now + 1
    /\ \E o \in HandleStatOutcomes :
          IF o # "ok"
          THEN /\ ReturnWith(Errorf("could not stat file", Err("stat", o)))
               /\ failed' = "Stat"
               /\ UNCHANGED finfo
          ELSE /\ finfo' = [mode |-> fs[handles[f].file].mode,
                            size |-> fs[handles[f].file].size,
                            mtime |-> fs[handles[f].file].mtime]
               /\ IF IsDir(finfo')
                  THEN ReturnWith(DirectoryError) /\ failed' = "Stat"
                  ELSE pc' = "IsBlockDevice" /\ UNCHANGED <<err, failed>>
    /\ UNCHANGED <<fs, bind, fname, pcs, f, isBlock, mincore, handles,
                   filterRes, probeLen, sizedFile, rebinds>>

\* Lines 96-99: isBlock, err := _isBlockDevice(fname).
IsBlockDevice ==
    /\ pc = "IsBlockDevice"
    /\ Ran("IsBlockDevice")
    /\ Called("isBlock")
    /\ now' = now + 1
    /\ \E o \in PathStatOutcomes :
          LET r == IsBlockDeviceResult(o)
          IN  /\ isBlock' = r[1]
              /\ IF r[2] # Nil
                 THEN ReturnWith(r[2]) /\ failed' = "IsBlockDevice"
                 ELSE pc' = "Size" /\ UNCHANGED <<err, failed>>
    /\ UNCHANGED <<fs, bind, fname, pcs, f, finfo, mincore, handles,
                   filterRes, probeLen, sizedFile, rebinds>>

\* Lines 100-107: the block-device size query, or finfo.Size().
Size ==
    /\ pc = "Size"
    /\ Ran("Size")
    /\ now' = now + 1
    /\ IF isBlock
       THEN \E o \in OpenOutcomes :
            \E i \in (IF o = "ok" THEN IoctlOutcomes(bind) ELSE {"none"}) :
               LET r == getBlockDeviceSize(o, i)
               IN  /\ pcs' = [pcs EXCEPT !.Size = r.size]
                   /\ handles' = r.handles
                   /\ sizedFile' = r.file
                   /\ calls' = [calls EXCEPT !.devSize = @ + 1,
                                            !.open = @ + 1]
                   /\ IF r.err # Nil
                      THEN ReturnWith(r.err) /\ failed' = "Size"
                      ELSE pc' = "Stamp" /\ UNCHANGED <<err, failed>>
       ELSE /\ pcs' = [pcs EXCEPT !.Size = finfo.size]
            /\ pc' = "Stamp"
            /\ UNCHANGED <<err, failed, handles, sizedFile, calls>>
    /\ UNCHANGED <<fs, bind, fname, f, finfo, isBlock, mincore, filterRes,
                   probeLen, rebinds>>

\* Lines 108-109: pcs.Timestamp = time.Now(); pcs.Mtime = finfo.ModTime().
Stamp ==
    /\ pc = "Stamp"
    /\ Ran("Stamp")
    /\ now' = now + 1
    /\ pcs' = [pcs EXCEPT !.Timestamp = now, !.Mtime = finfo.mtime]
    /\ pc' = "Probe"
    /\ UNCHANGED <<fs, bind, fname, err, f, finfo, isBlock, mincore, handles,
                   failed, calls, filterRes, probeLen, sizedFile, rebinds>>

\* Lines 111-117: mincore, err := GetFileMincore(f, pcs.Size).
Probe ==
    /\ pc = "Probe"
    /\ Ran("Probe")
    /\ Called("mincore")
    /\ now' = now + 1
    /\ probeLen' = pcs.Size
    /\ \E m \in MincoreOutcomes(pcs.Size) :
          /\ mincore' = m.res
          /\ IF m.err # Nil
             THEN ReturnWith(m.err) /\ failed' = "Probe"
             ELSE /\ UNCHANGED failed
                  /\ IF ~m.res.present
                     THEN ReturnWith(Nil)
                     ELSE pc' = "Aggregate" /\ UNCHANGED err
    /\ UNCHANGED <<fs, bind, fname, pcs, f, finfo, isBlock, handles,
                   filterRes, sizedFile, rebinds>>

\* A slip in line 120: the misses left out of the total.
AggregatePagesCachedOnly(m) == m.Cached
\* A slip in line 123: the factor 100 left out.
AggregatePercentFraction(cached, pages) == FloatDiv(cached, pages)

\* Line 120: int(mincore.Cached) + int(mincore.Miss)
AggregatePages(m) == m.Cached + m.Miss
\* Line 123: (float64(pcs.Cached) / float64(pcs.Pages)) * 100.00
AggregatePercent(cached, pages) == FloatMul100(FloatDiv(cached, pages))

\* Lines 119-124: the counts and the percentage.
Aggregate ==
    /\ pc = "Aggregate"
    /\ Ran("Aggregate")
    /\ now' = now + 1
    /\ pcs' = [pcs EXCEPT !.Cached = mincore.Cached,
                          !.Pages = AggregatePages(mincore),
                          !.Uncached = mincore.Miss,
                          !.Percent = AggregatePercent(mincore.Cached,
                                                       AggregatePages(mincore))]
    /\ ReturnWith(Nil)
    /\ UNCHANGED <<fs, bind, fname, f, finfo, isBlock, mincore, handles,
                   failed, calls, filterRes, probeLen, sizedFile, rebinds>>

\* A slip in line 78: the deferred close left out.
DeferCloseMissing(hs, h) == hs
\* Line 78: defer f.Close(), registered once the open succeeded.
DeferClose(hs, h) == IF h = 0 THEN hs ELSE CloseHandle(hs, h)

\* The deferred calls run and (pcs, err) goes to the caller.
Return ==
    /\ pc = "Return"
    /\ Ran("Return")
    /\ now' = now + 1
    /\ handles' = DeferClose(handles, f)
    /\ pc' = "done"
    /\ UNCHANGED <<fs, bind, fname, pcs, err, f, finfo, isBlock, mincore,
                   failed, calls, filterRes, probeLen, sizedFile, rebinds>>

\* A concurrent process re-binds the path (rename, unlink, mknod) while the
\* call runs.
Rebind ==
    /\ pc \notin {"Open", "done"}
    /\ rebinds < MaxRebinds
    /\ rebinds' = rebinds + 1
    /\ \E b \in (FileIds \cup {NoFile}) \ {bind} : bind' = b
    /\ UNCHANGED <<fs, fname, pc, pcs, err, f, finfo, isBlock, mincore,
                   handles, now, trace, failed, calls, filterRes, probeLen,
                   sizedFile>>

Next ==
    \/ Open
    \/ Filter
    \/ Stat
    \/ IsBlockDevice
    \/ Size
    \/ Stamp
    \/ Probe
    \/ Aggregate
    \/ Return

\* One call on a file system nobody else changes.
Spec == Init /\ [][Next]_vars

NextRace == Next \/ Rebind

\* One call while another process may re-bind the path.
SpecRace == Init /\ [][NextRace]_vars

(* ------------------------------- claims --------------------------------- *)
Done == pc = "done"
Success == Done /\ err = Nil
\* The numeric and time fields of the record are at their zero values.
OnlyNameSet == pcs = NewPcStatus(fname)
\* The file object behind the handle opened at line 74.
Target == handles[f].file
IsZero(x) == x.tag = "num" /\ x.num = 0

\* C1: every call that returns a nil error returns a record with
\* Pages == Cached + Uncached.
C1_PagesIsCachedPlusUncached ==
    Success => pcs.Pages = pcs.Cached + pcs.Uncached
C1_Witness ==
    Success /\ pcs.Cached >= 1 /\ pcs.Uncached >= 1

\* C2: every call that returns a nil error with Pages == 0 returns Cached == 0,
\* Uncached == 0 and Percent == 0, whether the provider gave no result or a
\* report of zero counts.
C2_ZeroPagesZeroPercent ==
    (Success /\ pcs.Pages = 0) =>
        pcs.Cached = 0 /\ pcs.Uncached = 0 /\ IsZero(pcs.Percent)

\* C3: when the filter returns an error, the call returns exactly that error
\* and a record with only Name set, and neither the stat, the block-device
\* check, the device-size query nor the residency provider is invoked.
C3_FilterShortCircuits ==
    filterRes # Nil =>
        /\ OnlyNameSet
        /\ calls.stat = 0 /\ calls.isBlock = 0 /\ calls.devSize = 0
        /\ calls.mincore = 0
        /\ calls.open = 1
        /\ pc \in {"Return", "done"}
        /\ err = filterRes
C3_Witness ==
    Done /\ filterRes = Err("filter", "too large") /\ err = filterRes

\* C4: every handle opened during the call is closed exactly once before the
\* call returns, on every exit path, and no handle is ever closed twice.
C4_HandlesClosed ==
    /\ \A h \in DOMAIN handles :
          /\ handles[h].closes <= 1
          /\ handles[h].open <=> handles[h].closes = 0
    /\ Done => \A h \in DOMAIN handles : ~handles[h].open
C4_Witness ==
    Success /\ Len(handles) = 2 /\ pcs.Pages > 0

\* C5 (as stated): a path that opens and is a directory always ends with the
\* DirectoryError, with the numeric fields at zero and no provider call.
C5_DirectoryAlwaysDirectoryError ==
    (Done /\ f # 0 /\ ModeDir \in fs[Target].mode) =>
        /\ err = DirectoryError
        /\ OnlyNameSet
        /\ calls.mincore = 0

C5_Witness ==
    Done /\ f # 0 /\ ModeDir \in fs[Target].mode /\ err = DirectoryError

\* C5 (amended): a path that opens and is a directory never ends with a nil
\* error or a populated record, and the provider is never invoked; it ends
\* with the DirectoryError whenever the filter accepted the handle and the
\* stat of the handle succeeded, and with the filter's error or the stat
\* error otherwise.
C5_DirectoryNeverPopulated ==
    (Done /\ f # 0 /\ ModeDir \in fs[Target].mode) =>
        /\ err # Nil
        /\ OnlyNameSet
        /\ calls.mincore = 0 /\ calls.isBlock = 0 /\ calls.devSize = 0
        /\ (filterRes = Nil /\ finfo # NoInfo) => err = DirectoryError
        /\ filterRes # Nil => err = filterRes
        /\ (filterRes = Nil /\ finfo = NoInfo) => err.kind = "could not stat file"

\* The stages in the order the call may run them.
StageIndex(st) ==
    CASE st = "Open" -> 1
      [] st = "Filter" -> 2
      [] st = "Stat" -> 3
      [] st = "IsBlockDevice" -> 4
      [] st = "Size" -> 5
      [] st = "Stamp" -> 6
      [] st = "Probe" -> 7
      [] st = "Aggregate" -> 8
      [] st = "Return" -> 9

\* The error a failing stage hands back.
ErrorOfStage(st) ==
    CASE st = "Open" -> err.kind = "could not open file for read"
      [] st = "Filter" -> err = filterRes /\ err # Nil
      [] st = "Stat" -> err.kind \in {"could not stat file", "file is a directory"}
      [] st = "IsBlockDevice" -> err.kind = "stat"
      [] st = "Size" -> err.kind \in {"open", "errno"}
      [] st = "Probe" -> err.kind = "mincore"
      [] OTHER -> FALSE

\* C6: the stages run at most once each and in pipeline order; after a failing
\* stage only the return runs, the error is that stage's, the fields of later
\* stages stay zero, and the error is nil exactly when no stage failed.
C6_LinearFailFast ==
    /\ \A i, j \in DOMAIN trace :
          i < j => StageIndex(trace[i]) < StageIndex(trace[j])
    /\ failed # "none" =>
          /\ pc \in {"Return", "done"}
          /\ \E i \in DOMAIN trace :
                /\ trace[i] = failed
                /\ \A j \in DOMAIN trace : j > i => trace[j] = "Return"
          /\ ErrorOfStage(failed)
          /\ StageIndex(failed) <= 5 => pcs.Size = 0
          /\ StageIndex(failed) <= 6 => pcs.Timestamp = 0 /\ pcs.Mtime = 0
          /\ StageIndex(failed) <= 8 =>
                /\ pcs.Pages = 0 /\ pcs.Cached = 0 /\ pcs.Uncached = 0
                /\ pcs.Percent = FloatZero
    /\ Done => (err = Nil <=> failed = "none")
    /\ Done => trace[Len(trace)] = "Return"
C6_Witness ==
    Done /\ failed = "Probe" /\ Len(trace) = 8 /\ pcs.Size > 0

\* C7: every successful probe with Pages > 0 has Percent equal to
\* 100 * Cached / Pages, between 0 and 100.
C7_PercentInRange ==
    (Success /\ pcs.Pages > 0) =>
        /\ pcs.Percent.tag = "num"
        /\ pcs.Percent.den > 0
        /\ pcs.Percent.num * pcs.Pages = 100 * pcs.Cached * pcs.Percent.den
        /\ 0 <= pcs.Percent.num
        /\ pcs.Percent.num <= 100 * pcs.Percent.den
C7_Witness ==
    /\ Success /\ pcs.Pages = 2 /\ pcs.Cached = 1 /\ pcs.Uncached = 1
    /\ pcs.Percent.num = 50 * pcs.Percent.den

\* C8: in every successful probe Size is the byte length handed to the
\* provider, and it is the device-size query's result for a block device and
\* the stat size otherwise; a block device's stat size is never used.
C8_SizeSource ==
    Success =>
        /\ probeLen = pcs.Size
        /\ IF ModeDevice \in fs[Target].mode /\ ModeCharDevice \notin fs[Target].mode
           THEN pcs.Size = fs[Target].dev /\ calls.devSize = 1
           ELSE pcs.Size = fs[Target].size /\ calls.devSize = 0
C8_Witness ==
    /\ Success
    /\ fs[Target].mode = {ModeDevice}
    /\ fs[Target].size = 0
    /\ pcs.Size = PageSize * 2 /\ probeLen = PageSize * 2

\* C9: a path that cannot be opened ends with the OpenError, a record with
\* only Name set, no collaborator invoked and no handle left open.
C9_OpenFailure ==
    (Done /\ f = 0) =>
        /\ err.kind = "could not open file for read"
        /\ err.cause \in {"ENOENT", "EACCES"}
        /\ OnlyNameSet
        /\ calls.filter = 0 /\ calls.stat = 0 /\ calls.isBlock = 0
        /\ calls.devSize = 0 /\ calls.mincore = 0
        /\ handles = <<>>
        /\ trace = <<"Open", "Return">>
C9_Witness ==
    Done /\ f = 0 /\ bind = NoFile /\ err.cause = "ENOENT"

\* C10: the size of a block device is queried on the handle opened at the
\* start rather than on a second open of the path, so the file object whose
\* size is resolved is the one the filter saw and the provider probes, also
\* when the path is re-bound in between.
C10_SizeQueryOnOpenHandle ==
    sizedFile # NoFile => sizedFile = Target

====
